---- MODULE Spec2Model ----
(***************************************************************************)
(* Model of m4binder.py: the conversion pipeline that turns a folder of    *)
(* MP3 chapters into one M4B (parallel transcode, chapter timeline,        *)
(* concat manifest, merge, cleanup), the metadata resolver and main().     *)
(*                                                                         *)
(* File names are sequences of one-character strings, so that sorting,     *)
(* extension filtering and splitext behave as they do on Python strings.   *)
(* All files of one book live in one folder (input_folder is also the      *)
(* output folder of the transcoder), so a path is modelled by its name     *)
(* inside that folder: os.path.join(folder, f) prefixes every name with    *)
(* the same string and does not change any comparison.                     *)
(***************************************************************************)
EXTENDS Naturals, Integers, Sequences, FiniteSets, TLC

(***************************************************************************)
(* Bounds of the model.                                                    *)
(***************************************************************************)
MaxTracks == 3      \* entries of one folder listing
MaxFolders == 2     \* subfolders in 'multiple' mode
MaxDur == 2         \* probed durations, in half milliseconds (0.0005 s)

(***************************************************************************)
(* Strings.                                                                *)
(***************************************************************************)
\* Code points of the characters used in track names (Python compares
\* strings by code point).
Ord ==
    "." :> 46 @@ "3" :> 51 @@ "4" :> 52 @@ "M" :> 77 @@ "P" :> 80 @@
    "a" :> 97 @@ "b" :> 98 @@ "c" :> 99 @@ "m" :> 109 @@ "p" :> 112 @@
    "t" :> 116 @@ "x" :> 120

\* str.lower() on one character
LowerChar(c) ==
    IF c = "M" THEN "m" ELSE IF c = "P" THEN "p" ELSE c

Lower(s) == [i \in 1..Len(s) |-> LowerChar(s[i])]

EndsWith(s, suffix) ==
    /\ Len(s) >= Len(suffix)
    /\ SubSeq(s, Len(s) - Len(suffix) + 1, Len(s)) = suffix

DotMp3 == <<".", "m", "p", "3">>
DotM4a == <<".", "m", "4", "a">>

\* f.lower().endswith(".mp3")
IsMp3(f) == EndsWith(Lower(f), DotMp3)

\* os.path.splitext(name)[0]: the name up to its last dot (a dot at
\* position 1 does not start an extension)
SplitExtRoot(name) ==
    LET dots == {i \in 2..Len(name) : name[i] = "."}
    IN  IF dots = {} THEN name
        ELSE SubSeq(name, 1, (CHOOSE i \in dots : \A j \in dots : j <= i) - 1)

\* Python's str < str
RECURSIVE StrLess(_, _)
StrLess(s, t) ==
    IF t = <<>> THEN FALSE
    ELSE IF s = <<>> THEN TRUE
    ELSE IF Ord[Head(s)] # Ord[Head(t)] THEN Ord[Head(s)] < Ord[Head(t)]
    ELSE StrLess(Tail(s), Tail(t))

\* insert x into the sorted list of strings s, after its equals
RECURSIVE Insert(_, _)
Insert(x, s) ==
    IF s = <<>> THEN <<x>>
    ELSE IF StrLess(x, Head(s)) THEN <<x>> \o s
    ELSE <<Head(s)>> \o Insert(x, Tail(s))

\* list.sort() / sorted() on a list of strings
RECURSIVE Sorted(_)
Sorted(s) ==
    IF s = <<>> THEN <<>> ELSE Insert(s[Len(s)], Sorted(SubSeq(s, 1, Len(s) - 1)))

\* every way os.listdir may order the entries of a folder
Listings(S) ==
    {l \in [1..Cardinality(S) -> S] : \A x \in S : \E i \in DOMAIN l : l[i] = x}

\* [f for f in listing if f.lower().endswith(".mp3")]
Mp3Filter(l) == SelectSeq(l, IsMp3)

(***************************************************************************)
(* The environment: what a folder may contain, what the external tools     *)
(* and services may answer.                                                *)
(***************************************************************************)
NamePool ==
    { <<"a", ".", "m", "p", "3">>,
      <<"a", ".", "M", "P", "3">>,
      <<"a", ".", "b", ".", "m", "p", "3">>,
      <<"c", ".", "t", "x", "t">> }

\* the contents a folder may have when it is listed
FolderContents == {S \in SUBSET NamePool : Cardinality(S) <= MaxTracks}

None == "None"                 \* Python's None where a string is expected
NoPath == <<>>                 \* Python's None where a path is expected
Falsy(v) == v \in {None, ""}   \* `not v` for an optional string
Or(a, b) == IF Falsy(a) THEN b ELSE a      \* Python's `a or b`

MetadataFile == <<"chapters.ffmetadata">>
ListFile == <<"concat_list.txt">>
CoverSuffix == <<"_cover.jpg">>
OlCover == <<"7-cover.jpg">>

\* what the first track's ID3 tags may be: unreadable (EasyID3 raises), or
\* readable with or without album/artist frames
TagOutcomes ==
    { [readable |-> FALSE, album |-> None, artist |-> None],
      [readable |-> TRUE, album |-> None, artist |-> None],
      [readable |-> TRUE, album |-> "TagAlbum", artist |-> "TagArtist"] }

\* what the lookup service may answer, per --metadata-source
LookupOutcomes(src) ==
    CASE src = "google" -> {"hit", "noresult", "unreachable"}
      [] src = "openlibrary" -> {"notinstalled", "hit", "noresult", "unreachable"}
      [] OTHER -> {"skipped"}

VARIABLES
    mode, source, output_folder, arg_title, arg_author,   \* argparse result
    pc,              \* position of the main thread
    subfolders_found,\* batch mode: the list `subfolders` is not empty
    subfolders_left, \* batch loop: subfolders the for loop has not visited yet
    fs,              \* names of the files in the current book's folder
    mp3_files,       \* main(): sorted tracks of the current folder
    book_meta,       \* main(): result of get_book_metadata
    futures,         \* parallel_encode: one record per submitted job
    results,         \* parallel_encode: outputs gathered so far
    m4a_files,       \* convert: list returned by parallel_encode
    chapters,        \* create_ffmetadata: the [CHAPTER] blocks written
    probed,          \* the durations get_duration returned, in order
    meta_lines,      \* create_ffmetadata: the global tag lines written
    manifest,        \* create_concat_list: the lines written, in order
    ffmpeg_cmd,      \* convert: the argument list of the final merge
    merge_outcome,   \* outcome of the final ffmpeg invocation
    exit_code,       \* process exit status, -1 while running
    raised,          \* exception that left main(), "" if none
    reported,        \* the merge error of this book was printed (line 281)
    cleaned,         \* the finally block of this book has run
    merge_calls,     \* how often line 278 ran the merge tool for this book
    resolver_in      \* what the get_book_metadata call that just returned read

vars ==
    <<mode, source, output_folder, arg_title, arg_author, pc, subfolders_found,
      subfolders_left, fs,
      mp3_files, book_meta, futures, results, m4a_files, chapters, probed,
      meta_lines, manifest, ffmpeg_cmd, merge_outcome, exit_code, raised,
      reported, cleaned, merge_calls, resolver_in>>

\* what no step changes once it is set: the parsed arguments, and whether
\* subfolders were found
fixed == <<mode, source, output_folder, arg_title, arg_author, subfolders_found>>
book ==
    <<futures, results, m4a_files, chapters, probed, meta_lines, manifest,
      ffmpeg_cmd, merge_outcome, reported, cleaned, merge_calls>>

NoMeta == [title |-> None, authors |-> <<>>, publisher |-> "", cover |-> NoPath]

\* resolver_in when no call of get_book_metadata has just returned
NoCall ==
    [tags |-> [readable |-> FALSE, album |-> None, artist |-> None],
     answer |-> "nocall", has_cover |-> FALSE]

Init ==
    /\ mode \in {"single", "multiple"}
    /\ source \in {"google", "openlibrary", "none"}
    /\ output_folder \in (IF mode = "single" THEN {None} ELSE {None, "out"})
    /\ arg_title \in {None, "Dune"}
    /\ arg_author \in {None, "Frank Herbert"}
    /\ pc = "start"
    /\ subfolders_found = FALSE
    /\ subfolders_left = 0
    /\ fs = {}
    /\ mp3_files = <<>>
    /\ book_meta = NoMeta
    /\ futures = <<>> /\ results = <<>> /\ m4a_files = <<>>
    /\ chapters = <<>> /\ probed = <<>> /\ manifest = <<>>
    /\ meta_lines = <<>> /\ ffmpeg_cmd = <<>>
    /\ merge_outcome = "none"
    /\ exit_code = -1
    /\ raised = ""
    /\ reported = FALSE /\ cleaned = FALSE
    /\ merge_calls = 0
    /\ resolver_in = NoCall

\* an uncaught exception leaves main(): traceback, exit status 1
Abort(exc) ==
    /\ pc' = "exited"
    /\ exit_code' = 1
    /\ raised' = exc

\* the per-book variables before a book is processed
ResetBook ==
    /\ futures' = <<>> /\ results' = <<>> /\ m4a_files' = <<>>
    /\ chapters' = <<>> /\ probed' = <<>> /\ manifest' = <<>>
    /\ meta_lines' = <<>> /\ ffmpeg_cmd' = <<>>
    /\ merge_outcome' = "none"
    /\ reported' = FALSE /\ cleaned' = FALSE
    /\ merge_calls' = 0

(***************************************************************************)
(* main(), single mode: list the folder, filter, sort, exit 1 if empty.    *)
(***************************************************************************)
MainSingleDiscover ==
    /\ pc = "start" /\ mode = "single"
    /\ \E content \in FolderContents : \E listing \in Listings(content) :
        /\ fs' = content
        /\ mp3_files' = Sorted(Mp3Filter(listing))
        /\ IF mp3_files' = <<>>
           THEN pc' = "exited" /\ exit_code' = 1
           ELSE pc' = "metadata" /\ UNCHANGED exit_code
    /\ UNCHANGED <<fixed, subfolders_left, book_meta, book, raised, resolver_in>>

(***************************************************************************)
(* main(), multiple mode: list the subfolders, exit 1 if there is none.    *)
(***************************************************************************)
MainListSubfolders ==
    /\ pc = "start" /\ mode = "multiple"
    /\ \E n \in 0..MaxFolders :
        /\ subfolders_left' = n
        /\ subfolders_found' = (n > 0)
        /\ IF n = 0
           THEN pc' = "exited" /\ exit_code' = 1
           ELSE pc' = "loop" /\ UNCHANGED exit_code
    /\ UNCHANGED <<mode, source, output_folder, arg_title, arg_author, fs,
                   mp3_files, book_meta, book, raised, resolver_in>>

\* one iteration head of `for subdir in subfolders`: take the next
\* subfolder, list, filter, sort, skip the subfolder if it has no track
MainSubfolderDiscover ==
    /\ pc = "loop" /\ subfolders_left > 0
    /\ subfolders_left' = subfolders_left - 1
    /\ \E content \in FolderContents : \E listing \in Listings(content) :
        /\ fs' = content
        /\ mp3_files' = Sorted(Mp3Filter(listing))
        /\ IF mp3_files' = <<>>
           THEN UNCHANGED pc
           ELSE pc' = "metadata"
    /\ ResetBook
    /\ UNCHANGED <<fixed, book_meta, exit_code, raised, resolver_in>>

\* main() returns: the interpreter exits with status 0
MainReturn ==
    /\ \/ pc = "loop" /\ subfolders_left = 0
       \/ pc = "single_done"
    /\ pc' = "exited"
    /\ exit_code' = 0
    /\ UNCHANGED <<fixed, subfolders_left, fs, mp3_files, book_meta, book, raised,
                   resolver_in>>

(***************************************************************************)
(* Metadata resolver.                                                      *)
(***************************************************************************)
\* extract_id3_tags: {} when EasyID3 raises, else album/artist (None if the
\* frame is missing)
extract_id3_tags(tags) ==
    IF tags.readable
    THEN [has_keys |-> TRUE, album |-> tags.album, artist |-> tags.artist]
    ELSE [has_keys |-> FALSE, album |-> None, artist |-> None]

\* id3_tags.get(key, ""): the default only applies to a missing key
TagGet(id3, key) ==
    IF ~id3.has_keys THEN ""
    ELSE IF key = "album" THEN id3.album ELSE id3.artist

\* lines 297-303: the defaults for title and author
default_title(tags) ==
    IF Falsy(arg_title) \/ Falsy(arg_author)
    THEN TagGet(extract_id3_tags(tags), "album")
    ELSE arg_title

default_author(tags) ==
    IF Falsy(arg_title) \/ Falsy(arg_author)
    THEN TagGet(extract_id3_tags(tags), "artist")
    ELSE arg_author

\* FetchResult without the `if not items: return None` test: an empty
\* answer is turned into a metadata record with empty fields
FetchResultNoEmptyCheck(src, answer, ol_has_cover) ==
    CASE answer = "unreachable" -> [kind |-> "raise", meta |-> NoMeta]
      [] answer = "hit" ->
            [kind |-> "meta",
             meta |-> [title |-> "LookupTitle", authors |-> <<"LookupAuthor">>,
                       publisher |-> "LookupPublisher", cover |-> NoPath]]
      [] answer = "noresult" ->
            [kind |-> "meta",
             meta |-> [title |-> "", authors |-> <<>>, publisher |-> "",
                       cover |-> NoPath]]
      [] OTHER -> [kind |-> "none", meta |-> NoMeta]


\* fetch_metadata_google_books / fetch_metadata_openlibrary: what the call
\* does for an answer of the service. kind "raise": the request itself fails
\* (requests.get and Work.search are not guarded); kind "none": the function
\* returns None (no result, client not installed); kind "meta": a result
FetchResult(src, answer, ol_has_cover) ==
    CASE answer = "unreachable" -> [kind |-> "raise", meta |-> NoMeta]
      [] answer = "hit" /\ src = "google" ->
            [kind |-> "meta",
             meta |-> [title |-> "LookupTitle", authors |-> <<"LookupAuthor">>,
                       publisher |-> "LookupPublisher", cover |-> NoPath]]
      [] answer = "hit" /\ src = "openlibrary" ->
            [kind |-> "meta",
             meta |-> [title |-> "LookupTitle", authors |-> <<"LookupAuthor">>,
                       publisher |-> "LookupPublisher",
                       cover |-> IF ol_has_cover THEN OlCover ELSE NoPath]]
      [] OTHER -> [kind |-> "none", meta |-> NoMeta]

\* lines 327-334: the fallback metadata
FallbackMeta(tags, cover_art) ==
    [title |-> Or(arg_title, default_title(tags)),
     authors |-> <<Or(arg_author, default_author(tags))>>,
     publisher |-> "",
     cover |-> cover_art]

\* extract_embedded_cover_art: the cover written next to the MP3, or None
EmbeddedCover(mp3, has_apic) ==
    IF has_apic THEN SplitExtRoot(mp3) \o CoverSuffix ELSE NoPath

\* get_book_metadata(args, mp3_files), called from main()
GetBookMetadata ==
    /\ pc = "metadata"
    /\ \E tags \in TagOutcomes : \E answer \in LookupOutcomes(source) :
       \E has_cover \in BOOLEAN :
        LET fetched == FetchResult(source, answer, has_cover)
            cover_art == EmbeddedCover(mp3_files[1], has_cover)
        IN  IF fetched.kind = "raise"
            THEN /\ Abort("ConnectionError")
                 /\ UNCHANGED <<book_meta, fs, resolver_in>>
            ELSE IF fetched.kind = "meta"
            THEN /\ book_meta' = fetched.meta
                 /\ fs' = IF fetched.meta.cover # NoPath
                          THEN fs \cup {fetched.meta.cover} ELSE fs
                 /\ resolver_in' = [tags |-> tags, answer |-> answer,
                                    has_cover |-> has_cover]
                 /\ pc' = "outname"
                 /\ UNCHANGED <<exit_code, raised>>
            ELSE /\ book_meta' = FallbackMeta(tags, cover_art)
                 /\ fs' = IF cover_art # NoPath THEN fs \cup {cover_art} ELSE fs
                 /\ resolver_in' = [tags |-> tags, answer |-> answer,
                                    has_cover |-> has_cover]
                 /\ pc' = "outname"
                 /\ UNCHANGED <<exit_code, raised>>
    /\ UNCHANGED <<fixed, subfolders_left, mp3_files, book>>

\* main() lines 452-455 and 489-490: the output file name; os.path.join
\* raises TypeError when --output-folder was not given in multiple mode
MainOutputName ==
    /\ pc = "outname"
    /\ IF mode = "multiple" /\ output_folder = None
       THEN Abort("TypeError")
       ELSE pc' = "transcode" /\ UNCHANGED <<exit_code, raised>>
    /\ resolver_in' = NoCall
    /\ UNCHANGED <<fixed, subfolders_left, fs, mp3_files, book_meta, book>>

(***************************************************************************)
(* Parallel transcoder.                                                    *)
(***************************************************************************)
\* OutFile that keeps the name of the track
OutFileKeepName(mp3) == mp3


\* lines 208-209: the output path of one track
OutFile(mp3) == SplitExtRoot(mp3) \o DotM4a

\* line 223: the list parallel_encode_mp3s_to_m4a returns
ReturnedList(res) == Sorted(res)

\* lines 197-211: list the folder again, filter, sort, submit one job per
\* track; futures[i] is the job of the i-th track of the sorted list
EncodeSubmit ==
    /\ pc = "transcode"
    /\ \E listing \in Listings(fs) :
        LET enc_mp3_files == Sorted(Mp3Filter(listing))
        IN  futures' = [i \in 1..Len(enc_mp3_files) |->
                          [mp3 |-> enc_mp3_files[i],
                           out_file |-> OutFile(enc_mp3_files[i]),
                           state |-> "pending",
                           gathered |-> FALSE]]
    /\ results' = <<>>
    /\ pc' = "gather"
    /\ UNCHANGED <<fixed, subfolders_left, fs, mp3_files, book_meta, m4a_files,
                   chapters, probed, meta_lines, manifest, ffmpeg_cmd,
                   merge_outcome, exit_code, raised, reported, cleaned,
                   merge_calls, resolver_in>>

\* a worker process finishes encode_mp3_to_m4a: ffmpeg exits 0 and the
\* output exists, or it fails (check=True raises in the worker) and may
\* leave a partial output behind
JobFinish(i) ==
    /\ pc = "gather"
    /\ i \in DOMAIN futures
    /\ futures[i].state = "pending"
    /\ \/ /\ futures' = [futures EXCEPT ![i].state = "ok"]
          /\ fs' = fs \cup {futures[i].out_file}
       \/ /\ futures' = [futures EXCEPT ![i].state = "failed"]
          /\ \E partial \in BOOLEAN :
                fs' = IF partial THEN fs \cup {futures[i].out_file} ELSE fs
    /\ UNCHANGED <<fixed, pc, subfolders_left, mp3_files, book_meta, results,
                   m4a_files, chapters, probed, meta_lines, manifest,
                   ffmpeg_cmd, merge_outcome, exit_code, raised, reported, cleaned,
                   merge_calls, resolver_in>>

\* lines 216-220: results after one future was examined
\* GatherResult without the try/except: every finished job counts
GatherResultNoCheck(res, fut) == Append(res, fut.out_file)

GatherResult(res, fut) ==
    IF fut.state = "ok" THEN Append(res, fut.out_file) ELSE res

\* lines 214-220: as_completed yields a finished future; its output is
\* appended on success, the error is caught and printed on failure
Gather(i) ==
    /\ pc = "gather"
    /\ i \in DOMAIN futures
    /\ futures[i].state # "pending"
    /\ ~futures[i].gathered
    /\ futures' = [futures EXCEPT ![i].gathered = TRUE]
    /\ results' = GatherResult(results, futures[i])
    /\ UNCHANGED <<fixed, pc, subfolders_left, fs, mp3_files, book_meta, m4a_files,
                   chapters, probed, meta_lines, manifest, ffmpeg_cmd,
                   merge_outcome, exit_code, raised, reported, cleaned,
                   merge_calls, resolver_in>>

\* AsCompletedExhausted for a loop that stops at the first finished job
AsCompletedFirst(futs) ==
    futs = <<>> \/ \E i \in DOMAIN futs : futs[i].gathered

\* lines 214-221: the for loop over as_completed(futures) ends when every
\* submitted future has been yielded
AsCompletedExhausted(futs) == \A i \in DOMAIN futs : futs[i].gathered

\* as_completed is exhausted, the pool is shut down, line 223 returns and
\* line 233 binds the result
EncodeReturn ==
    /\ pc = "gather"
    /\ AsCompletedExhausted(futures)
    /\ m4a_files' = ReturnedList(results)
    /\ pc' = "ffmetadata"
    /\ UNCHANGED <<fixed, subfolders_left, fs, mp3_files, book_meta, futures, results,
                   chapters, probed, meta_lines, manifest, ffmpeg_cmd,
                   merge_outcome, exit_code, raised, reported, cleaned,
                   merge_calls, resolver_in>>

(***************************************************************************)
(* Chapter timeline builder.                                               *)
(***************************************************************************)
\* the durations ffprobe may print for a file: seconds, as a number of half
\* milliseconds
Durations == 0..MaxDur

\* what running ffprobe on a file may do: print a duration; print something
\* float() rejects (also the empty output of an ffprobe that exits non-zero,
\* which run() without check=True lets through); or not start at all, in
\* which case subprocess.run raises FileNotFoundError
ProbeOutcomes ==
    {[kind |-> "seconds", h |-> d] : d \in Durations}
    \cup {[kind |-> "garbage", h |-> 0], [kind |-> "notfound", h |-> 0]}

\* get_duration, lines 35-57: subprocess.run stands before the try
\* statement, only float() is inside it
get_duration(outcome) ==
    CASE outcome.kind = "seconds" -> [raises |-> FALSE, sec |-> outcome.h]
      [] outcome.kind = "garbage" -> [raises |-> FALSE, sec |-> 0]
      [] OTHER -> [raises |-> TRUE, sec |-> 0]

\* what EasyID3(file).get("title") gives for the files of the pool: None
\* when the file has no readable ID3 title
TitleTag(file) ==
    IF file = <<"a", ".", "b", ".", "m", "4", "a">> THEN "Intro" ELSE None

\* Python's round() on h/2: round half to even
RoundHalfEven(h) ==
    LET q == h \div 2
    IN  IF h % 2 = 0 THEN q
        ELSE IF q % 2 = 0 THEN q ELSE q + 1

\* line 134: int(round(duration_sec * 1000))
duration_ms(h) == RoundHalfEven(h)

\* lines 146-147: the chapter title
ChapterTitle(tag, idx) ==
    IF Falsy(tag) THEN <<"Chapter", idx>> ELSE <<tag, 0>>

\* NextStart with `=` in place of `+=`
NextStartNoSum(current_start_ms, dur) == dur

\* line 155: the running offset after a chapter
NextStart(current_start_ms, dur) == current_start_ms + dur

\* lines 130-155: the loop over the files; `file` records which file the
\* block was computed from
RECURSIVE ChapterLoop(_, _, _, _)
ChapterLoop(files, durs, idx, current_start_ms) ==
    IF idx > Len(files) THEN <<>>
    ELSE LET chapter_start == current_start_ms
             chapter_end == chapter_start + duration_ms(durs[idx])
         IN  <<[start |-> chapter_start,
                end |-> chapter_end,
                title |-> ChapterTitle(TitleTag(files[idx]), idx),
                file |-> files[idx]]>>
             \o ChapterLoop(files, durs, idx + 1,
                            NextStart(current_start_ms, duration_ms(durs[idx])))

\* lines 120-128: the global tag lines
GlobalLines(meta) ==
    <<<<"title", <<meta.title>>>>, <<"album", <<meta.title>>>>>>
    \o (IF Len(meta.authors) > 0 /\ meta.authors[1] # None
        THEN <<<<"artist", meta.authors>>, <<"album_artist", meta.authors>>>>
        ELSE <<>>)
    \o <<<<"publisher", <<meta.publisher>>>>>>

\* create_ffmetadata(m4a_files, metadata_file, book_metadata), line 238.
\* The file is opened before the loop; an exception of get_duration leaves
\* the loop, the function, convert_mp3_chapters_to_m4b (line 238 is not
\* inside its try statement) and main(), with the blocks written so far
CreateFFMetadata ==
    /\ pc = "ffmetadata"
    /\ \E outs \in [1..Len(m4a_files) -> ProbeOutcomes] :
        LET got == [i \in 1..Len(m4a_files) |-> get_duration(outs[i])]
            bad == {i \in 1..Len(m4a_files) : got[i].raises}
            done == IF bad = {} THEN Len(m4a_files)
                    ELSE (CHOOSE i \in bad : \A j \in bad : i <= j) - 1
            durs == [i \in 1..done |-> got[i].sec]
        IN  /\ probed' = durs
            /\ chapters' = ChapterLoop(SubSeq(m4a_files, 1, done), durs, 1, 0)
            /\ IF bad = {}
               THEN pc' = "concat" /\ UNCHANGED <<exit_code, raised>>
               ELSE Abort("FileNotFoundError: ffprobe")
    /\ meta_lines' = GlobalLines(book_meta)
    /\ fs' = fs \cup {MetadataFile}
    /\ UNCHANGED <<fixed, subfolders_left, mp3_files, book_meta, futures, results,
                   m4a_files, manifest, ffmpeg_cmd, merge_outcome, reported,
                   cleaned, merge_calls, resolver_in>>

(***************************************************************************)
(* Concat list builder.                                                    *)
(***************************************************************************)
\* str.replace(c, rep) for a one-character pattern
RECURSIVE Replace(_, _, _)
Replace(s, c, rep) ==
    IF s = <<>> THEN <<>>
    ELSE (IF Head(s) = c THEN rep ELSE <<Head(s)>>) \o Replace(Tail(s), c, rep)

\* lines 166-168
SafePath(path) ==
    Replace(Replace(path, "\\", <<"\\", "\\">>), "'", <<"'", "\\", "'", "'">>)

\* line 169 (without the newline)
ConcatLine(path) == <<"f", "i", "l", "e", " ", "'">> \o SafePath(path) \o <<"'">>

\* ConcatInput taking the outputs in completion order
ConcatInputUnsorted(files) == results

\* the list handed to create_concat_list at line 239
ConcatInput(files) == files

\* create_concat_list(m4a_files, list_file), line 239
CreateConcatList ==
    /\ pc = "concat"
    /\ manifest' = [i \in 1..Len(ConcatInput(m4a_files)) |->
                      ConcatLine(ConcatInput(m4a_files)[i])]
    /\ fs' = fs \cup {ListFile}
    /\ pc' = "merge"
    /\ UNCHANGED <<fixed, subfolders_left, mp3_files, book_meta, futures, results,
                   m4a_files, chapters, probed, meta_lines, ffmpeg_cmd,
                   merge_outcome, exit_code, raised, reported, cleaned,
                   merge_calls, resolver_in>>

(***************************************************************************)
(* Assembly: the final merge and the cleanup.                              *)
(***************************************************************************)
\* CoverPresent reduced to `if book_metadata:`
CoverPresentAnyMeta(meta, files) == TRUE

\* the condition of lines 253 and 265
CoverPresent(meta, files) == meta.cover # NoPath /\ meta.cover \in files

\* main() lines 452-455, 489-490: the output file of the current book
OutputFile == <<"output.m4b">>

\* literal arguments of a command line, each in the form paths have
Args(words) == [i \in DOMAIN words |-> <<words[i]>>]

\* lines 242-275: the argument list of the merge
MergeCommand(meta, files) ==
    Args(<<"ffmpeg", "-hide_banner", "-loglevel", "error", "-f", "concat",
           "-safe", "0", "-i">>)
    \o <<ListFile>> \o Args(<<"-i">>) \o <<MetadataFile>>
    \o (IF CoverPresent(meta, files)
        THEN Args(<<"-i">>) \o <<meta.cover>> ELSE <<>>)
    \o Args(<<"-map_metadata", "1", "-map", "0:a", "-c", "copy",
              "-movflags", "faststart">>)
    \o (IF CoverPresent(meta, files)
        THEN Args(<<"-map", "2", "-c:v", "mjpeg",
                    "-metadata:s:v", "title=\"Cover (front)\"",
                    "-metadata:s:v", "comment=\"Cover (front)\"",
                    "-disposition:v:0", "attached_pic">>)
        ELSE <<>>)
    \o <<OutputFile>>

\* what subprocess.run(ffmpeg_cmd, check=True) may do: return, raise
\* CalledProcessError (non-zero exit), or raise another exception (the
\* tool cannot be started)
MergeOutcomes == {"ok", "nonzero", "throws"}

\* Merge as a try/except without `finally`: an exception other than
\* CalledProcessError leaves the function without the cleanup
MergeNoFinally ==
    /\ pc = "merge"
    /\ ffmpeg_cmd' = MergeCommand(book_meta, fs)
    /\ \E outcome \in MergeOutcomes :
        /\ merge_outcome' = outcome
        /\ reported' = (outcome = "nonzero")
        /\ IF outcome = "throws"
           THEN Abort("OSError")
           ELSE pc' = "cleanup" /\ UNCHANGED <<exit_code, raised>>
    /\ merge_calls' = merge_calls + 1
    /\ UNCHANGED <<fixed, subfolders_left, fs, mp3_files, book_meta, futures, results,
                   m4a_files, chapters, probed, meta_lines, manifest,
                   cleaned, resolver_in>>


\* lines 241-281: build the command, run it, print the result
Merge ==
    /\ pc = "merge"
    /\ ffmpeg_cmd' = MergeCommand(book_meta, fs)
    /\ \E outcome \in MergeOutcomes :
        /\ merge_outcome' = outcome
        /\ reported' = (outcome = "nonzero")
    /\ merge_calls' = merge_calls + 1
    /\ pc' = "cleanup"
    /\ UNCHANGED <<fixed, subfolders_left, fs, mp3_files, book_meta, futures, results,
                   m4a_files, chapters, probed, meta_lines, manifest,
                   exit_code, raised, cleaned, resolver_in>>

\* lines 288-289: os.remove on each file in turn; os.remove raises
\* FileNotFoundError on a path that does not exist, which ends the loop
RECURSIVE RemoveLoop(_, _)
RemoveLoop(files, disk) ==
    IF files = <<>> THEN [disk |-> disk, ok |-> TRUE]
    ELSE IF Head(files) \notin disk THEN [disk |-> disk, ok |-> FALSE]
    ELSE RemoveLoop(Tail(files), disk \ {Head(files)})

\* RemoveTransient placed after the try statement instead of in `finally`
RemoveTransientOnReturn(disk) ==
    IF merge_outcome = "throws" THEN disk ELSE disk \ {MetadataFile, ListFile}

\* RemoveTransient that also removes the cover art handed to the merge
RemoveTransientAndCover(disk) == disk \ {MetadataFile, ListFile, book_meta.cover}


\* lines 284-287: the two guarded removals
RemoveTransient(disk) == disk \ {MetadataFile, ListFile}

\* lines 282-289, the finally block, and what follows it: an exception of
\* the cleanup or of the merge leaves main(); otherwise convert returns to
\* main(), which ends (single) or goes to the next subfolder (multiple).
\* When the function is left its locals are gone, and so is the content of
\* the two transient files
Cleanup ==
    /\ pc = "cleanup"
    /\ LET removed == RemoveLoop(m4a_files, RemoveTransient(fs))
       IN  /\ fs' = removed.disk
           /\ IF ~removed.ok
              THEN Abort("FileNotFoundError")
              ELSE IF merge_outcome = "throws"
              THEN Abort("OSError")
              ELSE IF mode = "single"
              THEN pc' = "single_done" /\ UNCHANGED <<exit_code, raised>>
              ELSE pc' = "loop" /\ UNCHANGED <<exit_code, raised>>
    /\ cleaned' = TRUE
    /\ futures' = <<>> /\ results' = <<>> /\ m4a_files' = <<>>
    /\ chapters' = <<>> /\ probed' = <<>> /\ manifest' = <<>>
    /\ meta_lines' = <<>> /\ ffmpeg_cmd' = <<>>
    /\ merge_outcome' = "none"
    /\ UNCHANGED <<fixed, subfolders_left, mp3_files, book_meta, reported,
                   merge_calls, resolver_in>>

(***************************************************************************)
(* The program.                                                            *)
(***************************************************************************)
Next ==
    \/ MainSingleDiscover
    \/ MainListSubfolders
    \/ MainSubfolderDiscover
    \/ GetBookMetadata
    \/ MainOutputName
    \/ EncodeSubmit
    \/ \E i \in 1..(MaxTracks + 1) : JobFinish(i)
    \/ \E i \in 1..(MaxTracks + 1) : Gather(i)
    \/ EncodeReturn
    \/ CreateFFMetadata
    \/ CreateConcatList
    \/ Merge
    \/ Cleanup
    \/ MainReturn

Spec == Init /\ [][Next]_vars

(***************************************************************************)
(* create_concat_list on its own, applied to lists of paths that hold      *)
(* backslashes and single quotes.                                          *)
(***************************************************************************)
MaxPathLen == 3

\* the characters of the paths: a letter, the backslash, the single quote
EscAlphabet == {"a", "\\", "'"}

\* the paths: 1 to MaxPathLen characters
EscPaths ==
    UNION {[1..n -> EscAlphabet] : n \in 1..MaxPathLen}

\* the state in which create_concat_list is called with a list of one or
\* two such paths
EscInit ==
    /\ mode = "single" /\ source = "none" /\ output_folder = None
    /\ arg_title = None /\ arg_author = None
    /\ pc = "concat"
    /\ subfolders_found = FALSE /\ subfolders_left = 0
    /\ m4a_files \in {<<p>> : p \in EscPaths}
                     \cup {<<p, q>> : p \in EscPaths, q \in EscPaths}
    /\ fs = {m4a_files[i] : i \in DOMAIN m4a_files}
    /\ mp3_files = <<>>
    /\ book_meta = NoMeta
    /\ futures = <<>> /\ results = <<>>
    /\ chapters = <<>> /\ probed = <<>> /\ manifest = <<>>
    /\ meta_lines = <<>> /\ ffmpeg_cmd = <<>>
    /\ merge_outcome = "none"
    /\ exit_code = -1
    /\ raised = ""
    /\ reported = FALSE /\ cleaned = FALSE
    /\ merge_calls = 0
    /\ resolver_in = NoCall

EscNext == CreateConcatList

SpecEscape == EscInit /\ [][EscNext]_vars

(***************************************************************************)
(* Properties.                                                             *)
(***************************************************************************)
\* the integer nearest to h/2, the even one of the two when h/2 lies halfway
NearestMs(h) ==
    CHOOSE n \in 0..h : /\ 2 * n - h \in {-1, 0, 1}
                        /\ (2 * n # h => n % 2 = 0)

\* d1 + ... + dk, in milliseconds
RECURSIVE SumMs(_, _)
SumMs(d, k) == IF k = 0 THEN 0 ELSE SumMs(d, k - 1) + NearestMs(d[k])

\* the jobs that succeeded
OkJobs == {i \in DOMAIN futures : futures[i].state = "ok"}

\* how often x occurs in the list s
Count(s, x) == Cardinality({i \in DOMAIN s : s[i] = x})

\* C1: once create_ffmetadata has returned there is one block per file of
\* the list, in the order of the list; block 1 starts at 0, block i starts
\* at d1+...+d(i-1) and ends at d1+...+di (each d rounded to milliseconds),
\* so each block starts where the previous one ends, starts never decrease
\* and the last block ends at the sum of all durations.
C1_ChapterTimeline ==
    pc \in {"concat", "merge", "cleanup"} =>
        /\ Len(chapters) = Len(m4a_files)
        /\ Len(probed) = Len(m4a_files)
        /\ \A i \in DOMAIN chapters :
            /\ chapters[i].file = m4a_files[i]
            /\ chapters[i].start = SumMs(probed, i - 1)
            /\ chapters[i].end = SumMs(probed, i)
            /\ i = 1 => chapters[i].start = 0
            /\ i > 1 => /\ chapters[i].start = chapters[i - 1].end
                        /\ chapters[i - 1].start <= chapters[i].start
            /\ i = Len(chapters) => chapters[i].end = SumMs(probed, Len(probed))

\* three chapters, the first one of 0.5 ms (rounded to 0), the others of 1 ms
C1_Witness ==
    /\ pc = "concat"
    /\ probed = <<1, 2, 2>>
    /\ chapters[3].start = 1 /\ chapters[3].end = 2

\* C2: a failed transcode job neither raises out of the transcoder nor
\* cancels another job: every job completes, the returned list holds
\* exactly the outputs of the jobs that succeeded (as many entries per path
\* as jobs that produced it), the book gets one chapter and one manifest
\* line per successful job, and the only way out of the gathering loop is
\* forward, to the builders, and from the manifest builder to the merge.
C2_FailureIsolation ==
    /\ [](pc \in {"ffmetadata", "concat", "merge", "cleanup"} =>
            /\ \A i \in DOMAIN futures : futures[i].state \in {"ok", "failed"}
            /\ Len(m4a_files) = Cardinality(OkJobs)
            /\ \A i \in DOMAIN futures :
                Count(m4a_files, futures[i].out_file) =
                    Cardinality({j \in OkJobs :
                                    futures[j].out_file = futures[i].out_file})
            /\ \A k \in DOMAIN m4a_files :
                \E j \in OkJobs : futures[j].out_file = m4a_files[k])
    /\ [](pc \in {"merge", "cleanup"} =>
            /\ Len(chapters) = Cardinality(OkJobs)
            /\ Len(manifest) = Cardinality(OkJobs))
    /\ [][pc = "gather" => pc' \in {"gather", "ffmetadata"}]_vars
    /\ [][pc = "concat" => pc' = "merge"]_vars

\* three tracks, exactly the second one failed: two chapters, two manifest
\* lines, none for the failed track, and the merge is reached
C2_Witness ==
    /\ pc = "merge"
    /\ Len(futures) = 3
    /\ futures[2].state = "failed"
    /\ OkJobs = {1, 3}
    /\ Len(chapters) = 2 /\ Len(manifest) = 2
    /\ \A k \in DOMAIN m4a_files : m4a_files[k] # futures[2].out_file

\* C3: the manifest has as many lines as there are chapter blocks, and its
\* i-th line names the file from whose duration the i-th block was computed.
C3_ManifestMatchesTimeline ==
    pc \in {"merge", "cleanup"} =>
        /\ Len(manifest) = Len(chapters)
        /\ \A i \in DOMAIN manifest : manifest[i] = ConcatLine(chapters[i].file)

\* two different outputs, gathered in the order opposite to the sorted one
C3_Witness ==
    /\ pc = "merge"
    /\ Len(manifest) = 2
    /\ manifest[1] # manifest[2]
    /\ results = <<m4a_files[2], m4a_files[1]>>

\* the outputs of the successful jobs, in the order of the sorted input list
RECURSIVE CanonicalOutputs(_)
CanonicalOutputs(futs) ==
    IF futs = <<>> THEN <<>>
    ELSE (IF Head(futs).state = "ok" THEN <<Head(futs).out_file>> ELSE <<>>)
         \o CanonicalOutputs(Tail(futs))

\* C4: the list the transcoder returns is in the canonical order: each
\* successful track's output stands where the track stands in the input
\* list sorted by filename.
C4_CanonicalOrder ==
    pc = "ffmetadata" => m4a_files = CanonicalOutputs(futures)

\* C5: every way out of the merge step goes through the cleanup, and once
\* the cleanup has run neither the chapter descriptor nor the concat
\* manifest exists, whether the merge succeeded, failed or threw.
C5_TransientCleanup ==
    /\ [](cleaned => MetadataFile \notin fs /\ ListFile \notin fs)
    /\ [][pc = "merge" => pc' = "cleanup"]_vars
    /\ [][pc = "cleanup" =>
            cleaned' /\ MetadataFile \notin fs' /\ ListFile \notin fs']_vars

\* the merge invocation threw; the two files are gone all the same
C5_Witness ==
    /\ pc = "exited"
    /\ raised = "OSError"
    /\ cleaned
    /\ MetadataFile \notin fs /\ ListFile \notin fs

\* C6: when the cleanup has run, no output path of any dispatched transcode
\* job exists any more.
C6_IntermediatesRemoved ==
    [][pc = "cleanup" =>
        \A i \in DOMAIN futures : futures[i].out_file \notin fs']_vars

\* C7: in batch mode a book whose merge returned non-zero does not end the
\* run: with subfolders still to visit, the orchestrator is back at the head
\* of the loop after that book's cleanup.
C7_BatchIsolation ==
    [][(pc = "cleanup" /\ mode = "multiple" /\ merge_outcome = "nonzero"
            /\ subfolders_left > 0)
        => pc' = "loop"]_vars

\* C8: a process in which a merge failure was reported ends with a status
\* other than 0, after the cleanup has run.
C8_MergeFailureExit ==
    (pc = "exited" /\ reported) => (cleaned /\ exit_code # 0)

\* C9: the exit status is 1 exactly when no track was found (single mode) or
\* no subfolder was found (batch mode), and 0 in every other run.
C9_ExitStatus ==
    pc = "exited" =>
        /\ exit_code \in {0, 1}
        /\ exit_code = 1 <=>
            \/ mode = "single" /\ mp3_files = <<>>
            \/ mode = "multiple" /\ ~subfolders_found

\* C10: get_book_metadata returns to main() whatever the lookup service
\* answers; it never leaves by an exception.
C10_ResolverNeverRaises ==
    [][pc = "metadata" => pc' = "outname"]_vars

\* a tag of the first track as the caller sees it: the empty string when
\* the tags cannot be read, None when the frame is missing
TagOrEmpty(tags, key) ==
    IF ~tags.readable THEN ""
    ELSE IF key = "album" THEN tags.album ELSE tags.artist

\* the third tier: explicit title and author where given, the first track's
\* tags otherwise, no publisher, the embedded cover if the track has one
TierThree(in) ==
    [title |-> IF arg_title \in {None, ""}
               THEN TagOrEmpty(in.tags, "album") ELSE arg_title,
     authors |-> <<IF arg_author \in {None, ""}
                   THEN TagOrEmpty(in.tags, "artist") ELSE arg_author>>,
     publisher |-> "",
     cover |-> IF in.has_cover
               THEN SplitExtRoot(mp3_files[1]) \o CoverSuffix ELSE NoPath]

\* C11: when get_book_metadata returns after a lookup that gave no result
\* (or whose client is not installed), the metadata is the third tier's,
\* field for field: what the call returns on the same inputs when no lookup
\* source is configured. Nothing in it comes from the lookup tier.
C11_LookupFallback ==
    (pc = "outname"
        /\ resolver_in.answer \in {"skipped", "noresult", "notinstalled"})
    => book_meta = TierThree(resolver_in)

\* the lookup is configured and finds nothing; the title was given, the
\* author comes from the tags, the cover from the track
C11_Witness ==
    /\ pc = "outname"
    /\ source = "openlibrary"
    /\ resolver_in.answer = "noresult"
    /\ arg_title = "Dune" /\ arg_author = None
    /\ resolver_in.tags.artist = "TagArtist"
    /\ resolver_in.has_cover
    /\ book_meta.title = "Dune"
    /\ book_meta.authors = <<"TagArtist">>
    /\ book_meta.cover # NoPath

\* C12: get_duration always returns, with 0.0 when the file cannot be
\* probed, so create_ffmetadata always returns with one chapter block per
\* file, whatever happens to the probe tool.
C12_ProbeNeverRaises ==
    [][pc = "ffmetadata" =>
        pc' = "concat" /\ Len(chapters') = Len(m4a_files)]_vars

\* C13: no step of convert_mp3_chapters_to_m4b, from the transcoding to the
\* end of the cleanup, removes the cover art file the resolver returned: if
\* the file exists before the step it exists after it.
C13_CoverKept ==
    [][(pc \in {"transcode", "gather", "ffmetadata", "concat", "merge", "cleanup"}
            /\ book_meta.cover # NoPath
            /\ book_meta.cover \in fs)
        => book_meta.cover \in fs']_vars

\* a book with cover art whose merge failed: the cleanup has run, the
\* transient files are gone, the cover is still there
C13_Witness ==
    /\ pc = "single_done"
    /\ cleaned /\ reported
    /\ book_meta.cover # NoPath
    /\ book_meta.cover \in fs
    /\ MetadataFile \notin fs /\ ListFile \notin fs

\* the stage of the orchestrator's state machine a position belongs to
Stage(p) ==
    CASE p \in {"start", "loop"} -> "Discover"
      [] p \in {"metadata", "outname"} -> "ResolveMetadata"
      [] p \in {"transcode", "gather"} -> "Transcode"
      [] p \in {"ffmetadata", "concat"} -> "BuildArtifacts"
      [] p = "merge" -> "Merge"
      [] p = "cleanup" -> "Cleanup"
      [] OTHER -> "Done"

\* the place of a stage in an order of the seven stages
Place(order, st) == CHOOSE i \in DOMAIN order : order[i] = st

\* a step follows an order of the stages: it stays in its stage or enters
\* the next one; a run may also end from Discover (nothing found) and from
\* ResolveMetadata or BuildArtifacts (exception), and in batch mode the
\* cleanup of one book is followed by the discovery of the next
StepFollows(order) ==
    \/ Place(order, Stage(pc')) = Place(order, Stage(pc))
    \/ Place(order, Stage(pc')) = Place(order, Stage(pc)) + 1
    \/ /\ Stage(pc') = "Done"
       /\ Stage(pc) \in {"Discover", "ResolveMetadata", "BuildArtifacts"}
    \/ /\ Stage(pc) = "Cleanup" /\ Stage(pc') = "Discover"
       /\ mode = "multiple"

\* C14, as claimed: the stages of a run occur in the order Discover,
\* Transcode, BuildArtifacts, ResolveMetadata, Merge, Cleanup, Done, each
\* starting when the previous one has finished; metadata resolution comes
\* after transcoding and artifact building.
C14_ClaimedOrder ==
    [][StepFollows(<<"Discover", "Transcode", "BuildArtifacts",
                     "ResolveMetadata", "Merge", "Cleanup", "Done">>)]_vars

\* C14, amended: the stages of a run occur in the order Discover,
\* ResolveMetadata, Transcode, BuildArtifacts, Merge, Cleanup, Done, each
\* starting when the previous one has finished; metadata resolution comes
\* before transcoding and artifact building. Transcode is always followed
\* by BuildArtifacts and Merge always by Cleanup.
C14_StageOrder ==
    [][StepFollows(<<"Discover", "ResolveMetadata", "Transcode",
                     "BuildArtifacts", "Merge", "Cleanup", "Done">>)]_vars

\* the metadata of the book is resolved and no transcode job was submitted
\* yet, no descriptor written
C14_Witness ==
    /\ pc = "transcode"
    /\ mode = "single"
    /\ book_meta # NoMeta
    /\ futures = <<>>
    /\ MetadataFile \notin fs

\* C15: while a transcode job of the book is still pending or running,
\* neither builder has started: the orchestrator is not past the gathering
\* loop, and no chapter block, manifest line, descriptor or manifest file
\* exists; a step that writes a chapter block or a manifest line is taken
\* with every job finished and gathered.
C15_JoinBarrier ==
    /\ []((\E i \in DOMAIN futures : futures[i].state = "pending") =>
            /\ pc = "gather"
            /\ chapters = <<>> /\ manifest = <<>>
            /\ MetadataFile \notin fs /\ ListFile \notin fs)
    /\ [][(chapters' # chapters \/ manifest' # manifest) =>
            \A i \in DOMAIN futures :
                futures[i].state # "pending" /\ futures[i].gathered]_vars

\* three jobs, all finished, gathered in an order other than the sorted
\* one; the three chapter blocks are written
C15_Witness ==
    /\ pc = "concat"
    /\ Len(futures) = 3
    /\ \A i \in DOMAIN futures : futures[i].state = "ok"
    /\ Len(chapters) = 3
    /\ results # m4a_files

\* C16: the jobs of two different tracks never have the same output path,
\* and the list the transcoder returns holds no path twice.
C16_InjectiveOutputs ==
    /\ \A i, j \in DOMAIN futures :
        futures[i].mp3 # futures[j].mp3 =>
            futures[i].out_file # futures[j].out_file
    /\ \A i, j \in DOMAIN m4a_files :
        i # j => m4a_files[i] # m4a_files[j]

\* the arguments that follow the occurrences of an option, in order
RECURSIVE ValuesOf(_, _)
ValuesOf(cmd, option) ==
    IF Len(cmd) < 2 THEN <<>>
    ELSE IF Head(cmd) = <<option>>
    THEN <<cmd[2]>> \o ValuesOf(Tail(Tail(cmd)), option)
    ELSE ValuesOf(Tail(cmd), option)

\* the position of the first occurrence of an argument
FirstAt(cmd, arg) ==
    CHOOSE k \in DOMAIN cmd : cmd[k] = arg /\ \A j \in 1..(k - 1) : cmd[j] # arg

\* C17: in the command line of the merge the manifest is the first input,
\* read as a concat list, and the descriptor the second; the cover is the
\* third input exactly when the metadata has a cover path and the file
\* exists; stream 2 is mapped as an attached picture exactly when there is
\* a third input; audio is mapped from input 0 and metadata from input 1;
\* the output path is the last argument and occurs once.
C17_MergeArguments ==
    pc = "cleanup" =>
        LET inputs == ValuesOf(ffmpeg_cmd, "-i")
            maps == ValuesOf(ffmpeg_cmd, "-map")
            has_cover == book_meta.cover # NoPath /\ book_meta.cover \in fs
        IN  /\ ffmpeg_cmd[1] = <<"ffmpeg">>
            /\ Len(inputs) = (IF has_cover THEN 3 ELSE 2)
            /\ inputs[1] = ListFile
            /\ inputs[2] = MetadataFile
            /\ has_cover => inputs[3] = book_meta.cover
            /\ \E k \in 1..(FirstAt(ffmpeg_cmd, <<"-i">>) - 2) :
                ffmpeg_cmd[k] = <<"-f">> /\ ffmpeg_cmd[k + 1] = <<"concat">>
            /\ maps = (IF Len(inputs) = 3 THEN <<<<"0:a">>, <<"2">>>>
                                          ELSE <<<<"0:a">>>>)
            /\ ValuesOf(ffmpeg_cmd, "-disposition:v:0") =
                  (IF Len(inputs) = 3 THEN <<<<"attached_pic">>>> ELSE <<>>)
            /\ ValuesOf(ffmpeg_cmd, "-map_metadata") = <<<<"1">>>>
            /\ ffmpeg_cmd[Len(ffmpeg_cmd)] = OutputFile
            /\ Count(ffmpeg_cmd, OutputFile) = 1

\* the merge of a book whose cover was downloaded by the lookup: three
\* inputs, the third one the cover, mapped as stream 2
C17_Witness ==
    /\ pc = "cleanup"
    /\ book_meta.cover = OlCover
    /\ Len(ValuesOf(ffmpeg_cmd, "-i")) = 3
    /\ ValuesOf(ffmpeg_cmd, "-i")[3] = OlCover
    /\ ValuesOf(ffmpeg_cmd, "-map") = <<<<"0:a">>, <<"2">>>>

\* how the consumer of the manifest (ffmpeg's concat demuxer) reads an
\* argument: outside quotes a backslash makes the next character literal
\* and a single quote opens a quoted stretch; inside quotes every character
\* up to the closing quote is literal, the backslash included
RECURSIVE Unquote(_, _)
Unquote(s, quoted) ==
    IF s = <<>> THEN <<>>
    ELSE IF quoted
    THEN (IF Head(s) = "'" THEN Unquote(Tail(s), FALSE)
          ELSE <<Head(s)>> \o Unquote(Tail(s), TRUE))
    ELSE IF Head(s) = "\\" /\ Len(s) >= 2
    THEN <<s[2]>> \o Unquote(Tail(Tail(s)), FALSE)
    ELSE IF Head(s) = "'" THEN Unquote(Tail(s), TRUE)
    ELSE <<Head(s)>> \o Unquote(Tail(s), FALSE)

\* the path the consumer reads from a manifest line: what follows `file `
LinePath(line) == Unquote(SubSeq(line, 6, Len(line)), FALSE)

\* C18: every manifest line create_concat_list writes is read back by the
\* consumer as the path it was written for, and two different paths are
\* written as two different lines.
C18_EscapeRoundTrip ==
    pc = "merge" =>
        /\ \A i \in DOMAIN manifest : LinePath(manifest[i]) = m4a_files[i]
        /\ \A i, j \in DOMAIN manifest :
            m4a_files[i] # m4a_files[j] => manifest[i] # manifest[j]

\* C19: when the orchestrator is done with a book in whose folder it found
\* at least one track, the merge tool has been run exactly once for that
\* book, whatever number of transcodes failed; with no successful transcode
\* the merge is run all the same, on an empty manifest and a descriptor
\* without chapter block.
C19_MergeOnce ==
    /\ merge_calls <= 1
    /\ (pc \in {"loop", "single_done", "exited"} /\ mp3_files # <<>>)
        => merge_calls = 1
    /\ (pc = "merge" /\ m4a_files = <<>>)
        => (manifest = <<>> /\ chapters = <<>>)

\* the files of a list
Range(s) == {s[i] : i \in DOMAIN s}

\* C20: from the discovery of a book's tracks on, every discovered track
\* exists, during and after the pipeline; what a step of the pipeline
\* removes is the descriptor, the manifest, or an intermediate the
\* transcoder returned, never anything else.
C20_InputsKept ==
    /\ [](pc # "start" => Range(mp3_files) \subseteq fs)
    /\ [][pc \notin {"start", "loop"} =>
            /\ (fs \ fs') \subseteq ({MetadataFile, ListFile} \cup Range(m4a_files))
            /\ (fs \ fs') \cap Range(mp3_files) = {}]_vars

\* a book of two tracks, both transcoded, after the cleanup: the two
\* tracks are there, their intermediates are gone
C20_Witness ==
    /\ pc = "single_done"
    /\ cleaned
    /\ Len(mp3_files) = 2
    /\ Range(mp3_files) \subseteq fs
    /\ OutFile(mp3_files[1]) # OutFile(mp3_files[2])
    /\ OutFile(mp3_files[1]) \notin fs
    /\ OutFile(mp3_files[2]) \notin fs

====
